---- MODULE Spec2Model ----
(***************************************************************************)
(* A model of the word-of-the-day plugin (src/main.js): the settings       *)
(* object with its word history, the history-limit text field, the prompt  *)
(* builder, the three provider adapters, fetchAllWordsOfTheDay, the        *)
(* daily-note writer, the manual command and the file-open handler.        *)
(*                                                                         *)
(* JavaScript strings are TLA+ strings; a text that the code scans         *)
(* (the limit field, a completion, a note) is a sequence of pieces.        *)
(* An async function is a process: every `await` is a position of its pc,  *)
(* and the code between two awaits is one action.                          *)
(***************************************************************************)
EXTENDS Integers, Sequences, FiniteSets, TLC

VARIABLES
    provider,          \* settings.provider
    apiKeys,           \* settings.claudeApiKey / openaiApiKey / geminiApiKey
    languages,         \* settings.languages
    autoAppend,        \* settings.autoAppend
    wordHistory,       \* settings.wordHistory: language key -> list of words
    wordHistoryLimit,  \* settings.wordHistoryLimit
    persisted,         \* what saveData last wrote: [wordHistory, wordHistoryLimit]
    dailyNotes,        \* the daily-notes plugin's options object is there
    vault,             \* path -> content of the files that exist
    fetchingWords,     \* this._fetchingWords
    pc,                \* position of every handler invocation
    loc,               \* locals of every handler invocation
    completions,       \* the completions the provider may answer with
    log                \* the operations applied so far (history of calls)

vars == <<provider, apiKeys, languages, autoAppend, wordHistory, wordHistoryLimit,
          persisted, dailyNotes, vault, fetchingWords, pc, loc, completions, log>>

settingsVars == <<provider, apiKeys, languages, autoAppend>>
procVars == <<dailyNotes, vault, fetchingWords, pc, loc, completions>>

-----------------------------------------------------------------------------
(* Bounds of the model. *)

\* Largest history limit the runs start from.
MaxLimit == 2
\* Number of operations a run of the history specification applies.
MaxOps == 3

-----------------------------------------------------------------------------
(* Strings. *)

\* String.prototype.toLowerCase on the words the model uses.
toLowerCase(s) ==
    CASE s = "Apple" -> "apple"
      [] s = "APPLE" -> "apple"
      [] s = "Berry" -> "berry"
      [] s = "Cherry" -> "cherry"
      [] OTHER -> s

\* Array.prototype.includes
Includes(list, x) == \E i \in 1..Len(list) : list[i] = x

\* Array.prototype.slice(-n) for n > 0: the last n elements (all when n >= length).
SliceLast(list, n) ==
    IF n >= Len(list) THEN list
    ELSE [i \in 1..n |-> list[Len(list) - n + i]]

\* The digits parseInt reads, with their values.
DigitValue(c) ==
    CASE c = "0" -> 0 [] c = "1" -> 1 [] c = "2" -> 2 [] c = "3" -> 3
      [] c = "4" -> 4 [] c = "5" -> 5 [] c = "6" -> 6 [] c = "7" -> 7
      [] c = "8" -> 8 [] c = "9" -> 9 [] OTHER -> -1

IsDigit(c) == DigitValue(c) >= 0

RECURSIVE SkipSpaces(_)
\* parseInt first strips leading white space.
SkipSpaces(s) == IF s # <<>> /\ Head(s) = " " THEN SkipSpaces(Tail(s)) ELSE s

RECURSIVE DigitPrefix(_, _)
\* The value of the longest prefix of digits of s, read after the value acc;
\* what follows the digits is ignored.
DigitPrefix(s, acc) ==
    IF s # <<>> /\ IsDigit(Head(s))
    THEN DigitPrefix(Tail(s), 10 * acc + DigitValue(Head(s)))
    ELSE acc

\* parseInt(value) of a text given as its characters (no radix, no 0x prefix
\* among the inputs): white space, an optional sign, then the longest run of
\* digits; NaN when there is no digit at that place.
parseInt(text) ==
    LET s == SkipSpaces(text)
        neg == s # <<>> /\ Head(s) = "-"
        body == IF s # <<>> /\ Head(s) \in {"-", "+"} THEN Tail(s) ELSE s
    IN IF body = <<>> \/ ~IsDigit(Head(body))
       THEN [nan |-> TRUE, val |-> 0]
       ELSE [nan |-> FALSE,
             val |-> IF neg THEN 0 - DigitPrefix(body, 0) ELSE DigitPrefix(body, 0)]

-----------------------------------------------------------------------------
(* The history store. *)

\* DEFAULT_SETTINGS.wordHistoryLimit, and the fallback of addWordToHistory.
DefaultHistoryLimit == 100

\* settings.wordHistory[language], [] for a key that is not there (lines 93-95).
HistoryList(history, language) ==
    IF language \in DOMAIN history THEN history[language] ELSE <<>>

\* Line 97: the word is pushed when its lowercase form is not in the list.
ShouldPushMutant(list, word) == ~Includes(list, word)
ShouldPush(list, word) == ~Includes(list, toLowerCase(word))

\* Lines 100-103: the list is cut to its last `limit` entries when longer.
TruncateMutant(list, limitSetting) ==
    LET limit == IF limitSetting # 0 THEN limitSetting ELSE DefaultHistoryLimit
    IN IF Len(list) > limit THEN SubSeq(list, 1, limit) ELSE list
Truncate(list, limitSetting) ==
    LET limit == IF limitSetting # 0 THEN limitSetting ELSE DefaultHistoryLimit
    IN IF Len(list) > limit THEN SliceLast(list, limit) ELSE list

\* addWordToHistory(language, word): the history map after the call.
addWordToHistory(history, limitSetting, language, word) ==
    LET list == HistoryList(history, language)
        newList == IF ShouldPush(list, word)
                   THEN Truncate(Append(list, toLowerCase(word)), limitSetting)
                   ELSE list
    IN [k \in DOMAIN history \cup {language} |->
            IF k = language THEN newList ELSE history[k]]

\* getWordHistory(language)
getWordHistory(history, language) == HistoryList(history, language)

\* saveSettings(): saveData(this.settings) writes the whole settings object.
Snapshot(history, limit) == [wordHistory |-> history, wordHistoryLimit |-> limit]

-----------------------------------------------------------------------------
(* The history specification: addWordToHistory and the limit field applied  *)
(* in any order to an empty history.                                        *)

HistLanguages == {"English", "Spanish"}
HistWords == {"apple", "Apple", "berry", "cherry", "date"}

\* Texts typed into the "Word history limit" field, as characters.
LimitTexts ==
    { <<"1">>, <<"2">>, <<"3">>, <<"0">>, <<"-", "1">>, <<"a">>, <<>>,
      <<"1", "a">>, <<" ", "2">>, <<"2", ".", "5">> }

InitIdle ==
    /\ provider = "claude"
    /\ apiKeys = [p \in {"claude", "openai", "gemini"} |-> "key"]
    /\ languages = << [name |-> "English", difficulty |-> "Fluent", enabled |-> TRUE] >>
    /\ autoAppend = TRUE
    /\ dailyNotes = TRUE
    /\ vault = <<>>
    /\ fetchingWords = FALSE
    /\ pc = <<>>
    /\ loc = <<>>
    /\ completions = {}

InitHist ==
    /\ InitIdle
    /\ wordHistory = <<>>
    /\ wordHistoryLimit \in 1..MaxLimit
    /\ persisted = Snapshot(wordHistory, wordHistoryLimit)
    /\ log = <<>>

\* addWordToHistory(language, word), called on its own.
RecordWord(language, word) ==
    /\ Len(log) < MaxOps
    /\ wordHistory' = addWordToHistory(wordHistory, wordHistoryLimit, language, word)
    /\ log' = Append(log, [op |-> "record", language |-> language, word |-> word,
                           text |-> <<>>])
    /\ UNCHANGED <<wordHistoryLimit, persisted, settingsVars, procVars>>

\* Lines 722-728: onChange of the "Word history limit" text field.
LimitChanged(text) ==
    /\ Len(log) < MaxOps
    /\ LET numValue == parseInt(text)
       IN IF ~numValue.nan /\ numValue.val > 0
          THEN /\ wordHistoryLimit' = numValue.val
               /\ persisted' = Snapshot(wordHistory, numValue.val)
          ELSE UNCHANGED <<wordHistoryLimit, persisted>>
    /\ log' = Append(log, [op |-> "limit", language |-> "", word |-> "", text |-> text])
    /\ UNCHANGED <<wordHistory, settingsVars, procVars>>

NextHist ==
    \/ \E language \in HistLanguages, word \in HistWords : RecordWord(language, word)
    \/ \E text \in LimitTexts : LimitChanged(text)

SpecHist == InitHist /\ [][NextHist]_vars

-----------------------------------------------------------------------------
(* Values. *)

\* JavaScript's null and undefined, and the text undefined is rendered as.
Null == "<null>"
Undefined == "<undefined>"

\* !x for the strings the code tests: the empty string, null, undefined.
Falsy(x) == x \in {"", Null, Undefined}

KnownProviders == {"claude", "openai", "gemini"}

\* getActiveApiKey()
getActiveApiKeyMutant(prov, keys) == keys["claude"]
getActiveApiKey(prov, keys) ==
    CASE prov = "claude" -> keys["claude"]
      [] prov = "openai" -> keys["openai"]
      [] prov = "gemini" -> keys["gemini"]
      [] OTHER -> Null

\* settings.languages.filter(lang => lang.enabled)
EnabledLanguagesMutant(langs) == langs
EnabledLanguages(langs) == SelectSeq(langs, LAMBDA lang : lang.enabled)

-----------------------------------------------------------------------------
(* The prompt builder. A prompt is the sequence of its lines. *)

\* history.slice(-20): how many recent words a prompt lists.
AvoidLimit == 20

\* The number of phrasing variations buildPrompt chooses from.
NumVariations == 4

PromptLine(kind, name, difficulty, words) ==
    [kind |-> kind, name |-> name, difficulty |-> difficulty, words |-> words]

TextLine(kind, id) == PromptLine(kind, id, "", <<>>)

\* Lines 406-416: the request of one language: its bullet, and the words to
\* avoid when its history is not empty.
LanguageRequest(lang, history) ==
    LET h == getWordHistory(history, lang.name)
    IN <<PromptLine("bullet", lang.name, lang.difficulty, <<>>)>> \o
       (IF Len(h) > 0
        THEN <<PromptLine("avoid", lang.name, "", SliceLast(h, AvoidLimit))>>
        ELSE <<>>)

RECURSIVE LanguageRequests(_, _)
\* languages.map(...).join('\n')
LanguageRequests(langs, history) ==
    IF langs = <<>> THEN <<>>
    ELSE LanguageRequest(Head(langs), history) \o LanguageRequests(Tail(langs), history)

\* Lines 450-454: the difficulty guidelines, restated in every prompt.
DifficultyGuidelines ==
    << TextLine("text", "Difficulty guidelines:"),
       TextLine("guideline", "Beginner"), TextLine("guideline", "Intermediate"),
       TextLine("guideline", "Advanced"), TextLine("guideline", "Fluent") >>

\* buildPrompt(languages) with phrasing variation v.
buildPrompt(langs, history, v) ==
    <<TextLine("intro", ToString(v))>> \o LanguageRequests(langs, history) \o
    <<TextLine("text", ""), TextLine("task", ToString(v)), TextLine("text", ""),
      TextLine("emphasis", ToString(v)), TextLine("text", "")>> \o
    DifficultyGuidelines \o
    <<TextLine("text", ""), TextLine("format", "Return ONLY a JSON array"),
      TextLine("text", ""), TextLine("closing", "")>>

-----------------------------------------------------------------------------
(* Completions. A completion is a sequence of tokens: the brackets and      *)
(* braces of JSON, the comma, a token per object literal with the fields of *)
(* a word entry, and "p" for a piece of prose.                              *)

WordEntry(language, word, definition, example) ==
    [language |-> language, word |-> word, definition |-> definition,
     example |-> example]

EntryTokens == {"e1", "e2", "e3", "e4", "e5"}

\* The object literal a token stands for.
EntryOf(tok) ==
    CASE tok = "e1" -> WordEntry("English", "Apple", "D1", "X1")
      [] tok = "e2" -> WordEntry("Spanish", "berry", "D2", "X2")
      [] tok = "e3" -> WordEntry("english", "cherry", "D3", "X3")
      [] tok = "e4" -> WordEntry("Spanish", Undefined, "D4", "X4")
      [] tok = "e5" -> WordEntry("English", "berry", Undefined, Undefined)
      [] OTHER -> WordEntry(Undefined, Undefined, Undefined, Undefined)

\* What an array element that is not a word entry reads as: every field of
\* it the code reads is undefined.
NoEntry == WordEntry(Undefined, Undefined, Undefined, Undefined)

ParseFail == [ok |-> FALSE, next |-> 0, kind |-> "", items |-> <<>>, entry |-> NoEntry]

RECURSIVE ParseValue(_, _)
RECURSIVE ParseElements(_, _, _)

\* JSON.parse, one value starting at token i: an object literal, an object
\* wrapping one value ("{" value "}"), or an array.
ParseValue(toks, i) ==
    IF i > Len(toks) THEN ParseFail
    ELSE IF toks[i] \in EntryTokens
    THEN [ok |-> TRUE, next |-> i + 1, kind |-> "object", items |-> <<>>,
          entry |-> EntryOf(toks[i])]
    ELSE IF toks[i] = "{"
    THEN LET inner == ParseValue(toks, i + 1)
         IN IF inner.ok /\ inner.next <= Len(toks) /\ toks[inner.next] = "}"
            THEN [ok |-> TRUE, next |-> inner.next + 1, kind |-> "object",
                  items |-> <<>>, entry |-> NoEntry]
            ELSE ParseFail
    ELSE IF toks[i] = "["
    THEN IF i + 1 <= Len(toks) /\ toks[i + 1] = "]"
         THEN [ok |-> TRUE, next |-> i + 2, kind |-> "array", items |-> <<>>,
               entry |-> NoEntry]
         ELSE ParseElements(toks, i + 1, <<>>)
    ELSE ParseFail

\* The elements of an array from token i on, after the elements acc.
ParseElements(toks, i, acc) ==
    LET v == ParseValue(toks, i)
        item == IF v.kind = "object" THEN v.entry ELSE NoEntry
    IN IF ~v.ok \/ v.next > Len(toks) THEN ParseFail
       ELSE IF toks[v.next] = ","
       THEN ParseElements(toks, v.next + 1, Append(acc, item))
       ELSE IF toks[v.next] = "]"
       THEN [ok |-> TRUE, next |-> v.next + 1, kind |-> "array",
             items |-> Append(acc, item), entry |-> NoEntry]
       ELSE ParseFail

\* JSON.parse(text): the whole text is one value.
JsonParse(toks) ==
    LET v == ParseValue(toks, 1)
    IN IF v.ok /\ v.next = Len(toks) + 1 THEN v ELSE ParseFail

\* Array.isArray(words)
IsArray(v) == v.kind = "array"

\* content.match(/\[[\s\S]*\]/): from the first "[" to the last "]" after it;
\* <<>> when there is none.
RegexMatch(toks) ==
    LET opens == {i \in 1..Len(toks) : toks[i] = "["}
        first == CHOOSE i \in opens : \A j \in opens : i <= j
        closes == {i \in 1..Len(toks) : toks[i] = "]" /\ i > first}
        last == CHOOSE i \in closes : \A j \in closes : i >= j
    IN IF opens = {} THEN <<>>
       ELSE IF closes = {} THEN <<>>
       ELSE SubSeq(toks, first, last)

\* Only fetchWordsFromGemini takes the bracketed part of the completion
\* before parsing it (lines 378-386).
ExtractsArrayMutant(prov) == TRUE
ExtractsArray(prov) == prov = "gemini"

\* What requestUrl answers: it throws (ok = FALSE), or the response has the
\* completion text at the provider's path (hasText) or has not.
Response(ok, hasText, text) == [ok |-> ok, hasText |-> hasText, text |-> text]

\* fetchWordsFromClaude / OpenAI / Gemini after requestUrl: the words, or a
\* throw (ok = FALSE).
AdapterResult(prov, resp) ==
    IF ~resp.ok \/ ~resp.hasText \/ resp.text = <<>>
    THEN [ok |-> FALSE, words |-> ParseFail]
    ELSE LET text == IF ExtractsArray(prov) THEN RegexMatch(resp.text) ELSE resp.text
             v == JsonParse(text)
         IN IF text = <<>> \/ ~v.ok \/ ~IsArray(v)
            THEN [ok |-> FALSE, words |-> ParseFail]
            ELSE [ok |-> TRUE, words |-> v]

-----------------------------------------------------------------------------
(* fetchAllWordsOfTheDay after the adapter: history and rendering. *)

\* The property key a language value is used as.
HistoryKey(language) == IF language = Undefined THEN "undefined" ELSE language

RecordAllMutant(history, limitSetting, items) ==
    [history |-> history, threw |-> FALSE]

RECURSIVE RecordAll(_, _, _)
\* Lines 207-209: words.forEach(addWordToHistory). A word that is undefined
\* throws at word.toLowerCase(), after the language's list was created, and
\* the entries before it stay recorded.
RecordAll(history, limitSetting, items) ==
    IF items = <<>> THEN [history |-> history, threw |-> FALSE]
    ELSE LET key == HistoryKey(Head(items).language)
             withKey == [k \in DOMAIN history \cup {key} |->
                            IF k \in DOMAIN history THEN history[k] ELSE <<>>]
         IN IF Head(items).word = Undefined
            THEN [history |-> withKey, threw |-> TRUE]
            ELSE RecordAll(addWordToHistory(history, limitSetting, key,
                                            Head(items).word),
                           limitSetting, Tail(items))

\* The sentinel header line.
Sentinel == "> [!QUOTE] Vocabulary"

\* `${x}` of a field: undefined is rendered as the text undefined.
Interpolate(x) == IF x = Undefined THEN "undefined" ELSE x

\* Lines 215-222: the group of one entry; every group but the last is
\* followed by a separator.
RenderGroupMutant(wordData, isLast) ==
    << "\n", "> **", Interpolate(wordData.language), ":**", "\n",
       "> **", Interpolate(wordData.word), "**", "\n", "> ", "\n",
       "> *Definition:* ", Interpolate(wordData.definition), "\n", "> ", "\n",
       "> *Example:* ", Interpolate(wordData.example), "\n", "> " >>
RenderGroup(wordData, isLast) ==
    << "\n", "> **", Interpolate(wordData.language), ":**", "\n",
       "> **", Interpolate(wordData.word), "**", "\n", "> ", "\n",
       "> *Definition:* ", Interpolate(wordData.definition), "\n", "> ", "\n",
       "> *Example:* ", Interpolate(wordData.example) >> \o
    (IF isLast THEN <<>> ELSE <<"\n", "> ">>)

RECURSIVE RenderGroups(_)
RenderGroups(items) ==
    IF items = <<>> THEN <<>>
    ELSE RenderGroup(Head(items), Len(items) = 1) \o RenderGroups(Tail(items))

\* Lines 212-225: the markdown block.
RenderBlock(items) == <<Sentinel, "\n", "> ">> \o RenderGroups(items)

\* content.includes("> [!QUOTE] Vocabulary")
HasSentinel(content) == Includes(content, Sentinel)

\* Line 49: the file-open handler goes on when the note has no block yet.
AutoGuardMutant(content) == TRUE
AutoGuard(content) == ~HasSentinel(content)

\* Line 472: appendToDailyNote returns when the note has a block already.
AppendGuardMutant(content) == FALSE
AppendGuard(content) == HasSentinel(content)

\* Line 476: `${content}\n\n${markdownText}`
AppendedContent(content, markdown) == content \o <<"\n", "\n">> \o markdown

\* Lines 477-479: the callback given to vault.process returns the content
\* computed before the await, whatever data the file holds by then.
ProcessCallbackMutant(data, updatedContent, markdown) == AppendedContent(data, markdown)
ProcessCallback(data, updatedContent, markdown) == updatedContent

-----------------------------------------------------------------------------
(* The handlers. Every invocation of the manual command or of the file-open *)
(* handler is a process p; loc[p] holds its locals and what it did.         *)

\* normalizePath(`${dailyNoteFolder}/${today}.md`): today's daily note.
TodayPath == "Journal/today.md"
\* Another note of the vault.
OtherPath == "Notes/other.md"

Procs == DOMAIN pc

NoResponse == [ok |-> FALSE, hasText |-> FALSE, text |-> <<>>]

LocInit ==
    [kind |-> "", file |-> Null, alone |-> FALSE, called |-> FALSE,
     histAtCall |-> <<>>, persistedAtCall |-> Snapshot(<<>>, 0),
     prompt |-> <<>>, reqProvider |-> "", nreq |-> 0, answered |-> FALSE,
     response |-> NoResponse, words |-> <<>>, snapshot |-> Snapshot(<<>>, 0),
     result |-> "", markdown |-> <<>>, updated |-> <<>>,
     storageFailed |-> FALSE, wrote |-> FALSE,
     vaultAtCall |-> <<>>, saveFailed |-> FALSE, rejected |-> FALSE]

\* Invocations start in the order of their numbers.
NextToStart(p) == pc[p] = "idle" /\ \A q \in Procs : q < p => pc[q] # "idle"

\* No other invocation is under way.
Alone(p) == \A q \in Procs \ {p} : pc[q] \in {"idle", "done"}

\* isDailyNoteFile(file)
isDailyNoteFile(file) == dailyNotes /\ file = TodayPath

\* Lines 233-244: the adapter fetchWordsFromAI calls for a provider; Null
\* when it throws 'Invalid AI provider selected'.
fetchWordsFromAIMutant(prov) == IF prov \in KnownProviders THEN "claude" ELSE Null
fetchWordsFromAI(prov) ==
    CASE prov = "claude" -> "claude"
      [] prov = "openai" -> "openai"
      [] prov = "gemini" -> "gemini"
      [] OTHER -> Null

\* Line 203: `!words || words.length === 0`, whatever number of languages
\* was requested.
RejectsWordsMutant(items, requested) == Len(items) < requested
RejectsWords(items, requested) == Len(items) = 0

\* Lines 44-46: the file-open handler returns while a fetch is flagged.
DroppedMutant(flag) == FALSE
Dropped(flag) == flag

\* Lines 488-492: appendWordsToDailyNote returns when the daily-notes plugin
\* has no options.
NoDailyNotesConfigMutant(config) == FALSE
NoDailyNotesConfig(config) == ~config

\* The end of a handler: the finally of the file-open handler clears the
\* flag (line 57); the command has none. The locals are dropped.
FinishMutant(p, l) ==
    /\ pc' = [pc EXCEPT ![p] = "done"]
    /\ loc' = [loc EXCEPT ![p] = [l EXCEPT !.prompt = <<>>, !.words = <<>>,
                                           !.snapshot = Snapshot(<<>>, 0),
                                           !.markdown = <<>>, !.updated = <<>>]]
    /\ fetchingWords' = fetchingWords

Finish(p, l) ==
    /\ pc' = [pc EXCEPT ![p] = "done"]
    /\ loc' = [loc EXCEPT ![p] = [l EXCEPT !.prompt = <<>>, !.words = <<>>,
                                           !.snapshot = Snapshot(<<>>, 0),
                                           !.markdown = <<>>, !.updated = <<>>]]
    /\ fetchingWords' = IF l.kind = "auto" THEN FALSE ELSE fetchingWords

\* The handler after fetchAllWordsOfTheDay returned (lines 36-38, 53-55, and
\* appendWordsToDailyNote up to its first await, lines 488-510).
Settle(p, l) ==
    IF l.result = "null" THEN Finish(p, l)
    ELSE IF l.kind = "auto"
    THEN /\ pc' = [pc EXCEPT ![p] = "reading"]
         /\ loc' = [loc EXCEPT ![p] = l]
         /\ UNCHANGED fetchingWords
    ELSE IF NoDailyNotesConfig(dailyNotes)
    THEN Finish(p, [l EXCEPT !.storageFailed = TRUE])
    ELSE /\ pc' = [pc EXCEPT ![p] =
                     IF TodayPath \in DOMAIN vault THEN "reading" ELSE "creating"]
         /\ loc' = [loc EXCEPT ![p] = [l EXCEPT !.file = TodayPath]]
         /\ UNCHANGED fetchingWords

\* fetchAllWordsOfTheDay up to requestUrl (lines 185-201, 233-244 and the
\* adapter's first lines): the configuration is tested, the prompt is built
\* and the request is sent. The file-open handler has set the flag (line 50).
EnterFetch(p, l0) ==
    LET l == [l0 EXCEPT !.called = TRUE, !.histAtCall = wordHistory,
                        !.persistedAtCall = persisted, !.vaultAtCall = vault]
        apiKey == getActiveApiKey(provider, apiKeys)
        enabledLanguages == EnabledLanguages(languages)
    IN IF Falsy(apiKey) \/ Len(enabledLanguages) = 0 \/ fetchWordsFromAI(provider) = Null
       THEN Settle(p, [l EXCEPT !.result = "null"])
       ELSE /\ \E v \in 1..NumVariations :
                 loc' = [loc EXCEPT ![p] =
                           [l EXCEPT !.prompt = buildPrompt(enabledLanguages, wordHistory, v),
                                     !.reqProvider = fetchWordsFromAI(provider),
                                     !.nreq = l.nreq + 1]]
            /\ pc' = [pc EXCEPT ![p] = "request"]
            /\ fetchingWords' = IF l.kind = "auto" THEN TRUE ELSE fetchingWords

\* Lines 34-35: the command's callback calls fetchAllWordsOfTheDay.
ManualCommand(p) ==
    /\ NextToStart(p)
    /\ EnterFetch(p, [LocInit EXCEPT !.kind = "manual", !.alone = Alone(p)])
    /\ UNCHANGED <<settingsVars, wordHistory, wordHistoryLimit, persisted,
                   dailyNotes, vault, completions, log>>

\* Lines 42-48: a file-open event. The handler returns when auto-append is
\* off, the file is not today's note or a fetch is flagged; else it reads
\* the note.
FileOpen(p, file) ==
    /\ NextToStart(p)
    /\ LET l == [LocInit EXCEPT !.kind = "auto", !.file = file, !.alone = Alone(p)]
       IN IF autoAppend /\ file # Null /\ isDailyNoteFile(file) /\ ~Dropped(fetchingWords)
          THEN /\ pc' = [pc EXCEPT ![p] = "checking"]
               /\ loc' = [loc EXCEPT ![p] = l]
          ELSE /\ pc' = [pc EXCEPT ![p] = "done"]
               /\ loc' = [loc EXCEPT ![p] = l]
    /\ UNCHANGED <<settingsVars, wordHistory, wordHistoryLimit, persisted,
                   dailyNotes, vault, fetchingWords, completions, log>>

\* Lines 48-52: the handler's read of the note returns. A note without the
\* sentinel sets the flag and calls fetchAllWordsOfTheDay; a failed read
\* rejects the handler.
CheckDone(p, ok) ==
    /\ pc[p] = "checking"
    /\ IF ~ok
       THEN /\ pc' = [pc EXCEPT ![p] = "done"]
            /\ loc' = [loc EXCEPT ![p].storageFailed = TRUE, ![p].rejected = TRUE]
            /\ UNCHANGED fetchingWords
       ELSE IF AutoGuard(vault[loc[p].file])
       THEN EnterFetch(p, loc[p])
       ELSE /\ pc' = [pc EXCEPT ![p] = "done"]
            /\ UNCHANGED <<loc, fetchingWords>>
    /\ UNCHANGED <<settingsVars, wordHistory, wordHistoryLimit, persisted,
                   dailyNotes, vault, completions, log>>

\* requestUrl returns or throws: the adapter's parsing, and lines 201-210 of
\* fetchAllWordsOfTheDay up to `await this.saveSettings()`.
ProviderRespond(p, resp) ==
    /\ pc[p] = "request"
    /\ LET l == [loc[p] EXCEPT !.answered = TRUE, !.response = resp, !.prompt = <<>>]
           r == AdapterResult(l.reqProvider, resp)
           rec == RecordAll(wordHistory, wordHistoryLimit, r.words.items)
           requested == Len(EnabledLanguages(languages))
       IN IF ~r.ok \/ RejectsWords(r.words.items, requested)
          THEN /\ Settle(p, [l EXCEPT !.result = "null"])
               /\ UNCHANGED wordHistory
          ELSE /\ wordHistory' = rec.history
               /\ IF rec.threw
                  THEN Settle(p, [l EXCEPT !.result = "null"])
                  ELSE /\ pc' = [pc EXCEPT ![p] = "saving"]
                       /\ loc' = [loc EXCEPT ![p] =
                                    [l EXCEPT !.words = r.words.items,
                                              !.snapshot = Snapshot(rec.history,
                                                                    wordHistoryLimit)]]
                       /\ UNCHANGED fetchingWords
    /\ UNCHANGED <<settingsVars, wordHistoryLimit, persisted, dailyNotes, vault,
                   completions, log>>

\* saveSettings() returns or throws: lines 210-229, the block is rendered
\* and returned, or the catch returns null.
SaveDone(p, ok) ==
    /\ pc[p] = "saving"
    /\ IF ok
       THEN /\ persisted' = loc[p].snapshot
            /\ Settle(p, [loc[p] EXCEPT !.result = "block",
                                        !.markdown = RenderBlock(loc[p].words)])
       ELSE /\ UNCHANGED persisted
            /\ Settle(p, [loc[p] EXCEPT !.result = "null", !.saveFailed = TRUE])
    /\ UNCHANGED <<settingsVars, wordHistory, wordHistoryLimit, dailyNotes, vault,
                   completions, log>>

\* Lines 501-510: vault.create returns or throws (it throws when the file
\* exists by now); appendToDailyNote then reads the new note.
CreateDone(p, ok) ==
    /\ pc[p] = "creating"
    /\ IF ok /\ TodayPath \notin DOMAIN vault
       THEN /\ vault' = [f \in DOMAIN vault \cup {TodayPath} |->
                            IF f = TodayPath THEN <<>> ELSE vault[f]]
            /\ pc' = [pc EXCEPT ![p] = "reading"]
            /\ UNCHANGED <<loc, fetchingWords>>
       ELSE /\ Finish(p, [loc[p] EXCEPT !.storageFailed = TRUE])
            /\ UNCHANGED vault
    /\ UNCHANGED <<settingsVars, wordHistory, wordHistoryLimit, persisted,
                   dailyNotes, completions, log>>

\* Lines 471-477: appendToDailyNote's read returns or throws; a note with
\* the sentinel ends the call, else the new content is handed to
\* vault.process.
ReadDone(p, ok) ==
    /\ pc[p] = "reading"
    /\ IF ~ok THEN Finish(p, [loc[p] EXCEPT !.storageFailed = TRUE])
       ELSE IF AppendGuard(vault[loc[p].file]) THEN Finish(p, loc[p])
       ELSE /\ pc' = [pc EXCEPT ![p] = "writing"]
            /\ loc' = [loc EXCEPT ![p].updated =
                          AppendedContent(vault[loc[p].file], loc[p].markdown)]
            /\ UNCHANGED fetchingWords
    /\ UNCHANGED <<settingsVars, wordHistory, wordHistoryLimit, persisted,
                   dailyNotes, vault, completions, log>>

\* Lines 477-484: vault.process writes what its callback returns, the
\* content computed before the await, or throws.
WriteDone(p, ok) ==
    /\ pc[p] = "writing"
    /\ IF ok
       THEN /\ vault' = [vault EXCEPT ![loc[p].file] =
                          ProcessCallback(vault[loc[p].file], loc[p].updated,
                                          loc[p].markdown)]
            /\ Finish(p, [loc[p] EXCEPT !.wrote = TRUE])
       ELSE /\ UNCHANGED vault
            /\ Finish(p, [loc[p] EXCEPT !.storageFailed = TRUE])
    /\ UNCHANGED <<settingsVars, wordHistory, wordHistoryLimit, persisted,
                   dailyNotes, completions, log>>

Next ==
    \/ \E p \in Procs : ManualCommand(p)
    \/ \E p \in Procs, file \in DOMAIN vault \cup {Null} : FileOpen(p, file)
    \/ \E p \in Procs, ok \in BOOLEAN : CheckDone(p, ok)
    \/ \E p \in Procs, resp \in completions : ProviderRespond(p, resp)
    \/ \E p \in Procs, ok \in BOOLEAN : SaveDone(p, ok)
    \/ \E p \in Procs, ok \in BOOLEAN : CreateDone(p, ok)
    \/ \E p \in Procs, ok \in BOOLEAN : ReadDone(p, ok)
    \/ \E p \in Procs, ok \in BOOLEAN : WriteDone(p, ok)

-----------------------------------------------------------------------------
(* The specification of concurrent triggers: several invocations of the     *)
(* command and of the file-open handler on one vault.                       *)

\* Number of handler invocations of a run.
NumProcs == 2

GoodResponse == Response(TRUE, TRUE, <<"[", "e1", "]">>)

Init ==
    /\ provider = "claude"
    /\ apiKeys = [p \in KnownProviders |-> "key"]
    /\ languages = << [name |-> "English", difficulty |-> "Fluent", enabled |-> TRUE] >>
    /\ autoAppend = TRUE
    /\ wordHistory = <<>>
    /\ wordHistoryLimit = DefaultHistoryLimit
    /\ persisted = Snapshot(wordHistory, wordHistoryLimit)
    /\ dailyNotes = TRUE
    /\ vault \in { [f \in {OtherPath} |-> <<>>],
                   [f \in {OtherPath, TodayPath} |-> <<>>],
                   [f \in {OtherPath, TodayPath} |-> <<"text">>] }
    /\ fetchingWords = FALSE
    /\ pc = [p \in 1..NumProcs |-> "idle"]
    /\ loc = [p \in 1..NumProcs |-> LocInit]
    /\ completions = { GoodResponse, Response(FALSE, FALSE, <<>>) }
    /\ log = <<>>

Spec == Init /\ [][Next]_vars

-----------------------------------------------------------------------------
(* The specification of one fetch: one invocation, under every              *)
(* configuration and every answer of the provider.                          *)

\* A history longer than the prompt's list of recent words.
LongHistory == [i \in 1..(AvoidLimit + 2) |-> ToString(i)]

FetchLanguageLists ==
    { <<>>,
      << [name |-> "English", difficulty |-> "Fluent", enabled |-> TRUE] >>,
      << [name |-> "English", difficulty |-> "Fluent", enabled |-> FALSE] >>,
      << [name |-> "English", difficulty |-> "Fluent", enabled |-> TRUE],
         [name |-> "Spanish", difficulty |-> "Advanced", enabled |-> FALSE],
         [name |-> "French", difficulty |-> "Beginner", enabled |-> TRUE] >>,
      << [name |-> "Spanish", difficulty |-> "Intermediate", enabled |-> TRUE],
         [name |-> "English", difficulty |-> "Beginner", enabled |-> TRUE] >> }

FetchHistories ==
    { <<>>,
      [k \in {"English"} |-> <<>>],
      [k \in {"English", "Spanish"} |->
          IF k = "English" THEN <<"apple">> ELSE <<"berry", "cherry">>],
      [k \in {"English", "Spanish"} |->
          IF k = "English" THEN LongHistory ELSE <<"berry">>] }

FetchKeys ==
    { [p \in KnownProviders |-> "key"],
      [p \in KnownProviders |-> ""],
      [p \in KnownProviders |-> IF p = "claude" THEN "key" ELSE ""] }

FetchVaults ==
    { [f \in {OtherPath} |-> <<>>],
      [f \in {OtherPath, TodayPath} |-> <<>>],
      [f \in {OtherPath, TodayPath} |-> <<"text">>],
      [f \in {OtherPath, TodayPath} |->
          IF f = TodayPath
          THEN <<"text", "\n", "\n">> \o RenderBlock(<<EntryOf("e2")>>)
          ELSE <<>>] }

FetchTexts ==
    { <<"[", "e1", "]">>, <<"[", "e1", ",", "e2", "]">>, <<"[", "e2", ",", "e1", "]">>,
      <<"[", "e3", "]">>, <<"[", "e5", "]">>, <<"[", "e1", ",", "e4", "]">>,
      <<"[", "]">>, <<"[", "[", "e1", "]", "]">>,
      <<"e1">>, <<"{", "e1", "}">>, <<"{", "[", "e1", "]", "}">>,
      <<"p", "[", "e1", "]", "p">>, <<"[", "e1", "]", "p", "[", "p", "]">>,
      <<"p">>, <<"[", "e1">> }

FetchResponses ==
    { Response(FALSE, FALSE, <<>>), Response(TRUE, FALSE, <<>>),
      Response(TRUE, TRUE, <<>>) } \cup
    { Response(TRUE, TRUE, text) : text \in FetchTexts }

InitFetch ==
    /\ \/ /\ provider \in KnownProviders \cup {"custom"}
          /\ apiKeys \in FetchKeys
          /\ languages \in FetchLanguageLists
          /\ wordHistory \in FetchHistories
          /\ autoAppend = TRUE
          /\ dailyNotes = TRUE
          /\ vault = [f \in {OtherPath, TodayPath} |-> <<"text">>]
       \/ /\ provider \in {"claude", "gemini"}
          /\ apiKeys = [p \in KnownProviders |-> "key"]
          /\ languages = << [name |-> "English", difficulty |-> "Fluent",
                             enabled |-> TRUE] >>
          /\ wordHistory = <<>>
          /\ autoAppend \in BOOLEAN
          /\ dailyNotes \in BOOLEAN
          /\ vault \in FetchVaults
    /\ wordHistoryLimit = DefaultHistoryLimit
    /\ persisted = Snapshot(wordHistory, wordHistoryLimit)
    /\ fetchingWords = FALSE
    /\ pc = [p \in {1} |-> "idle"]
    /\ loc = [p \in {1} |-> LocInit]
    /\ completions = FetchResponses
    /\ log = <<>>

SpecFetch == InitFetch /\ [][Next]_vars

-----------------------------------------------------------------------------
(* The specification of two invocations whose awaited operations all       *)
(* return: every pending provider call, settings save, note creation, note  *)
(* read and note write of an invocation is eventually resolved or rejected. *)

InitLive ==
    /\ provider = "claude"
    /\ apiKeys = [p \in KnownProviders |-> "key"]
    /\ languages = << [name |-> "English", difficulty |-> "Fluent", enabled |-> TRUE] >>
    /\ autoAppend = TRUE
    /\ wordHistory = <<>>
    /\ wordHistoryLimit = DefaultHistoryLimit
    /\ persisted = Snapshot(wordHistory, wordHistoryLimit)
    /\ dailyNotes = TRUE
    /\ vault \in { [f \in {OtherPath} |-> <<>>],
                   [f \in {OtherPath, TodayPath} |-> <<"text">>] }
    /\ fetchingWords = FALSE
    /\ pc = [p \in {1, 2} |-> "idle"]
    /\ loc = [p \in {1, 2} |-> LocInit]
    /\ completions = { GoodResponse, Response(FALSE, FALSE, <<>>) }
    /\ log = <<>>

\* Lines 48, 210, 262/312/362, 471, 477, 503: each await is on an operation
\* of the host or of the network that settles.
OperationsReturn ==
    \A p \in {1, 2} :
        /\ WF_vars(\E ok \in BOOLEAN : CheckDone(p, ok))
        /\ WF_vars(\E resp \in completions : ProviderRespond(p, resp))
        /\ WF_vars(\E ok \in BOOLEAN : SaveDone(p, ok))
        /\ WF_vars(\E ok \in BOOLEAN : CreateDone(p, ok))
        /\ WF_vars(\E ok \in BOOLEAN : ReadDone(p, ok))
        /\ WF_vars(\E ok \in BOOLEAN : WriteDone(p, ok))

SpecLive == InitLive /\ [][Next]_vars /\ OperationsReturn

-----------------------------------------------------------------------------
(* The specification of two invocations answered with different words: the *)
(* provider gives one entry for English or one entry for Spanish.           *)

OtherResponse == Response(TRUE, TRUE, <<"[", "e2", "]">>)

InitRace ==
    /\ provider = "claude"
    /\ apiKeys = [p \in KnownProviders |-> "key"]
    /\ languages = << [name |-> "English", difficulty |-> "Fluent", enabled |-> TRUE] >>
    /\ autoAppend = TRUE
    /\ wordHistory = <<>>
    /\ wordHistoryLimit = DefaultHistoryLimit
    /\ persisted = Snapshot(wordHistory, wordHistoryLimit)
    /\ dailyNotes = TRUE
    /\ vault \in { [f \in {OtherPath} |-> <<>>],
                   [f \in {OtherPath, TodayPath} |-> <<"text">>] }
    /\ fetchingWords = FALSE
    /\ pc = [p \in {1, 2} |-> "idle"]
    /\ loc = [p \in {1, 2} |-> LocInit]
    /\ completions = { GoodResponse, OtherResponse }
    /\ log = <<>>

SpecRace == InitRace /\ [][Next]_vars

-----------------------------------------------------------------------------
(* Properties of the history store. *)

Last(s) == s[Len(s)]

\* The words addWordToHistory was called with for `language`, in call order.
RecordedWords(language) ==
    LET recs == SelectSeq(log, LAMBDA e : e.op = "record" /\ e.language = language)
    IN [i \in 1..Len(recs) |-> recs[i].word]

NoLimitEdit == \A i \in 1..Len(log) : log[i].op # "limit"

Occurrences(list, x) == Cardinality({i \in 1..Len(list) : list[i] = x})

\* C4: no language's list holds the same word twice, compared without case;
\* every stored word is lowercase; and right after addWordToHistory(L, w) the
\* lowercase form of w is in L's list exactly once.
C4_NoDuplicates ==
    /\ \A L \in DOMAIN wordHistory :
         LET h == wordHistory[L]
         IN /\ \A i, j \in 1..Len(h) :
                  i # j => toLowerCase(h[i]) # toLowerCase(h[j])
            /\ \A i \in 1..Len(h) : h[i] = toLowerCase(h[i])
    /\ (log # <<>> /\ Last(log).op = "record") =>
         Occurrences(HistoryList(wordHistory, Last(log).language),
                     toLowerCase(Last(log).word)) = 1

\* The same word was recorded twice for one language, in two letter cases.
C4_Witness ==
    /\ Len(log) = 2
    /\ log[1].op = "record" /\ log[2].op = "record"
    /\ log[1].language = "English" /\ log[2].language = "English"
    /\ log[1].word = "apple" /\ log[2].word = "Apple"
    /\ wordHistory["English"] = <<"apple">>

\* C5: with the limit N never edited, after N+1 words with distinct lowercase
\* forms were recorded for a language, its list is the last N of them, in the
\* order they were recorded: the first one is gone.
C5_EvictionOldestFirst ==
    \A L \in HistLanguages :
        LET recs == RecordedWords(L)
            N == wordHistoryLimit
        IN ( /\ NoLimitEdit
             /\ Len(recs) = N + 1
             /\ \A i, j \in 1..Len(recs) :
                    i # j => toLowerCase(recs[i]) # toLowerCase(recs[j]) )
           => /\ Len(HistoryList(wordHistory, L)) = N
              /\ ~Includes(HistoryList(wordHistory, L), toLowerCase(recs[1]))
              /\ HistoryList(wordHistory, L) = [i \in 1..N |-> toLowerCase(recs[i + 1])]

\* Three distinct words were recorded under a limit of two.
C5_Witness ==
    /\ wordHistoryLimit = 2
    /\ NoLimitEdit
    /\ RecordedWords("English") = <<"Apple", "berry", "cherry">>
    /\ wordHistory["English"] = <<"berry", "cherry">>

\* C6: every language's list has at most as many entries as the configured
\* limit, in every reachable state.
C6_HistoryWithinLimit ==
    \A L \in DOMAIN wordHistory : Len(wordHistory[L]) <= wordHistoryLimit

RECURSIVE AllDigits(_)
AllDigits(s) == s = <<>> \/ (IsDigit(Head(s)) /\ AllDigits(Tail(s)))

RECURSIVE UpToDot(_)
UpToDot(s) == IF s = <<>> \/ Head(s) = "." THEN <<>> ELSE <<Head(s)>> \o UpToDot(Tail(s))

\* The text is a decimal numeral: white space, an optional sign, digits, and
\* optionally a point and more digits; nothing else.
NumericText(text) ==
    LET s == SkipSpaces(text)
        body == IF s # <<>> /\ Head(s) \in {"-", "+"} THEN Tail(s) ELSE s
        whole == UpToDot(body)
        rest == SubSeq(body, Len(whole) + 1, Len(body))
    IN /\ whole # <<>> /\ AllDigits(whole)
       /\ rest = <<>> \/ (Len(rest) > 1 /\ AllDigits(Tail(rest)))

\* The number a numeric text denotes is positive.
PositiveText(text) ==
    LET s == SkipSpaces(text)
    IN /\ NumericText(text)
       /\ s # <<>> /\ Head(s) # "-"
       /\ \E i \in 1..Len(s) : IsDigit(s[i]) /\ DigitValue(s[i]) > 0

\* C7: an edit of the limit field to a text that is not numeric or not
\* positive leaves the limit, the persisted settings and the history as
\* they were.
C7_InvalidLimitIgnored ==
    [][ \A text \in LimitTexts :
          ( /\ log' = Append(log, [op |-> "limit", language |-> "", word |-> "",
                                   text |-> text])
            /\ ~PositiveText(text) )
          => UNCHANGED <<wordHistoryLimit, persisted, wordHistory>> ]_vars

-----------------------------------------------------------------------------
(* Properties of the triggers and of the daily-note writer. *)

InFetchCycle(p) == pc[p] \in {"request", "saving", "reading", "writing"}

SentinelCount(content) == Cardinality({i \in 1..Len(content) : content[i] = Sentinel})

TodayContent == IF TodayPath \in DOMAIN vault THEN vault[TodayPath] ELSE <<>>

\* C1: at most one fetch cycle started by a file-open event is in progress
\* at any time.
C1_OneAutoFetchInProgress ==
    Cardinality({p \in Procs : loc[p].kind = "auto" /\ InFetchCycle(p)}) <= 1

\* C2: today's note holds the sentinel header at most once in every state,
\* and exactly once as soon as one appendToDailyNote has written.
C2_SingleBlock ==
    /\ SentinelCount(TodayContent) <= 1
    /\ (\E p \in Procs : loc[p].wrote) => SentinelCount(TodayContent) = 1

\* Two appends interleaved at their reads and writes both wrote the note.
C2_Witness ==
    /\ \E p, q \in Procs :
          /\ p # q /\ loc[p].wrote /\ loc[q].wrote
          /\ loc[p].kind = "manual" /\ loc[q].kind = "auto"
    /\ SentinelCount(TodayContent) = 1

\* The manual command ran twice, the second time after the first had ended,
\* both fetches returned a block and no storage operation failed.
TwoManualRuns(p, q) ==
    /\ p < q
    /\ loc[p].kind = "manual" /\ loc[q].kind = "manual"
    /\ pc[p] = "done" /\ pc[q] = "done"
    /\ loc[q].alone
    /\ loc[p].result = "block" /\ loc[q].result = "block"
    /\ ~loc[p].storageFailed /\ ~loc[q].storageFailed

\* C3 as stated: two manual runs in sequence leave two sentinel headers in
\* the note.
C3_TwoBlocksAfterTwoRuns ==
    \A p, q \in Procs : TwoManualRuns(p, q) => SentinelCount(TodayContent) = 2

\* C3 as amended: two manual runs in sequence leave one sentinel header;
\* the second run asks the provider again but does not write the note.
C3_OneBlockAfterTwoRuns ==
    \A p, q \in Procs :
        TwoManualRuns(p, q) =>
            /\ SentinelCount(TodayContent) = 1
            /\ loc[q].nreq = 1
            /\ ~loc[q].wrote

C3_Witness ==
    \E p, q \in Procs :
        /\ TwoManualRuns(p, q)
        /\ loc[p].wrote /\ loc[q].answered
        /\ SentinelCount(TodayContent) = 1

-----------------------------------------------------------------------------
(* Properties of one fetch. *)

Min(a, b) == IF a <= b THEN a ELSE b

\* C8: the prompt of a request has one bullet per enabled language, in the
\* configured order, with its name and difficulty, and none for a disabled
\* one; a bullet is followed by an avoid line exactly when the language's
\* history is not empty, and the line lists the last min(20, length) words
\* of that history in their order.
C8_PromptLanguageSection ==
    \A p \in Procs :
        pc[p] = "request" =>
            LET P == loc[p].prompt
                H == loc[p].histAtCall
                bullets == SelectSeq(P, LAMBDA line : line.kind = "bullet")
                enabled == SelectSeq(languages, LAMBDA lang : lang.enabled = TRUE)
            IN /\ Len(bullets) = Len(enabled)
               /\ \A i \in 1..Len(bullets) :
                     /\ bullets[i].name = enabled[i].name
                     /\ bullets[i].difficulty = enabled[i].difficulty
               /\ \A k \in 1..Len(P) :
                     P[k].kind = "bullet" =>
                        LET h == HistoryList(H, P[k].name)
                            n == Min(AvoidLimit, Len(h))
                        IN /\ (Len(h) > 0) <=> (k < Len(P) /\ P[k + 1].kind = "avoid")
                           /\ Len(h) > 0 =>
                                /\ Len(P[k + 1].words) = n
                                /\ \A i \in 1..n :
                                      P[k + 1].words[i] = h[Len(h) - n + i]
               /\ \A k \in 1..Len(P) :
                     P[k].kind = "avoid" => k > 1 /\ P[k - 1].kind = "bullet"

\* A prompt for two enabled languages and a disabled one, the first with a
\* history of more than 20 words.
C8_Witness ==
    \E p \in Procs :
        /\ pc[p] = "request"
        /\ Len(languages) = 3 /\ ~languages[2].enabled
        /\ Len(HistoryList(loc[p].histAtCall, "English")) > AvoidLimit
        /\ Len(loc[p].prompt[3].words) = AvoidLimit

\* The provider answered with a completion that is valid JSON and not an
\* array.
NonArrayAnswer(p) ==
    /\ loc[p].answered
    /\ loc[p].response.ok /\ loc[p].response.hasText
    /\ JsonParse(loc[p].response.text).ok
    /\ JsonParse(loc[p].response.text).kind # "array"

\* The fetch failed: null was returned, the history is as it was at the
\* call, and no note is created or written.
FetchFailedCleanly(p) ==
    /\ loc[p].result = "null"
    /\ wordHistory = loc[p].histAtCall
    /\ ~loc[p].wrote
    /\ pc[p] \notin {"saving", "creating", "reading", "writing"}

\* C9 as stated: for each of the three providers a completion that is valid
\* JSON and not an array fails the fetch.
C9_NonArrayFails ==
    \A p \in Procs : NonArrayAnswer(p) => FetchFailedCleanly(p)

\* C9 as amended: it does so for Claude and OpenAI, and for Gemini when the
\* completion holds no "[" with a "]" after it.
C9_NonArrayFailsUnlessExtracted ==
    \A p \in Procs :
        ( /\ NonArrayAnswer(p)
          /\ \/ loc[p].reqProvider \in {"claude", "openai"}
             \/ RegexMatch(loc[p].response.text) = <<>> )
        => FetchFailedCleanly(p)

C9_Witness ==
    \E p \in Procs :
        /\ NonArrayAnswer(p)
        /\ loc[p].reqProvider = "openai"
        /\ loc[p].response.text = <<"{", "[", "e1", "]", "}">>
        /\ FetchFailedCleanly(p)

\* The active provider has no credential, or is none of the three, or no
\* language is enabled.
BadConfiguration ==
    \/ provider \notin KnownProviders
    \/ provider \in KnownProviders /\ apiKeys[provider] = ""
    \/ \A i \in 1..Len(languages) : ~languages[i].enabled

\* C10: under such a configuration fetchAllWordsOfTheDay returns null,
\* sends no request, and leaves the history and the persisted settings as
\* they were.
C10_PreconditionsBlockNetwork ==
    \A p \in Procs :
        (loc[p].called /\ BadConfiguration) =>
            /\ loc[p].result = "null"
            /\ loc[p].nreq = 0
            /\ ~loc[p].answered
            /\ wordHistory = loc[p].histAtCall
            /\ persisted = loc[p].persistedAtCall

C10_Witness ==
    \E p \in Procs :
        /\ loc[p].called
        /\ provider = "openai" /\ apiKeys["openai"] = "" /\ apiKeys["claude"] = "key"
        /\ \E i \in 1..Len(languages) : languages[i].enabled
        /\ loc[p].result = "null" /\ loc[p].nreq = 0

\* The entries of a completion in the order the provider wrote them.
ReturnedEntries(text) ==
    LET toks == SelectSeq(text, LAMBDA t : t \in EntryTokens)
    IN [i \in 1..Len(toks) |-> EntryOf(toks[i])]

\* A result is a rendered block from the moment the save succeeded until the
\* block is handed over and the call ends.
HoldsBlock(p) ==
    loc[p].result = "block" /\ pc[p] \in {"creating", "reading", "writing"}

\* C11: a rendered block starts with the sentinel header line and an empty
\* quoted line, then holds one group per returned entry in the provider's
\* order (language line, word line, Definition line, Example line), a
\* separator between groups and nothing after the last group.
C11_BlockShape ==
    \A p \in Procs :
        HoldsBlock(p) =>
            LET md == loc[p].markdown
                es == ReturnedEntries(loc[p].response.text)
                n == Len(es)
            IN /\ n >= 1
               /\ Len(md) = 3 + 18 * n + 2 * (n - 1)
               /\ SubSeq(md, 1, 3) = <<Sentinel, "\n", "> ">>
               /\ SentinelCount(md) = 1
               /\ \A i \in 1..n :
                    LET o == 3 + 20 * (i - 1)
                    IN /\ SubSeq(md, o + 1, o + 5) =
                            <<"\n", "> **", Interpolate(es[i].language), ":**", "\n">>
                       /\ SubSeq(md, o + 6, o + 9) =
                            <<"> **", Interpolate(es[i].word), "**", "\n">>
                       /\ SubSeq(md, o + 10, o + 11) = <<"> ", "\n">>
                       /\ SubSeq(md, o + 12, o + 14) =
                            <<"> *Definition:* ", Interpolate(es[i].definition), "\n">>
                       /\ SubSeq(md, o + 15, o + 16) = <<"> ", "\n">>
                       /\ SubSeq(md, o + 17, o + 18) =
                            <<"> *Example:* ", Interpolate(es[i].example)>>
                       /\ i < n => SubSeq(md, o + 19, o + 20) = <<"\n", "> ">>

\* Two entries returned in the order opposite to the configured languages.
C11_Witness ==
    \E p \in Procs :
        /\ HoldsBlock(p)
        /\ Len(languages) = 2 /\ languages[1].name = "Spanish"
        /\ ReturnedEntries(loc[p].response.text) = <<EntryOf("e1"), EntryOf("e2")>>
        /\ loc[p].markdown[6] = "English" /\ loc[p].markdown[26] = "Spanish"

\* The request of p failed: no answer, an answer of the wrong shape, or a
\* completion the adapter could not parse into an array.
RequestFailed(p) ==
    loc[p].answered /\ ~AdapterResult(loc[p].reqProvider, loc[p].response).ok

\* C12: a call of fetchAllWordsOfTheDay sends at most one request, to the
\* active provider, and sends none once its request has been answered,
\* failed or not.
C12_OneRequestNoFallback ==
    \A p \in Procs :
        /\ loc[p].nreq <= 1
        /\ loc[p].nreq = 1 => loc[p].reqProvider = provider
        /\ loc[p].answered => loc[p].nreq = 1 /\ pc[p] # "request"
        /\ RequestFailed(p) => loc[p].result = "null" /\ pc[p] = "done"

\* A request to Gemini, the active provider, was answered with a completion
\* the adapter could not turn into an array.
C12_Witness ==
    \E p \in Procs :
        /\ RequestFailed(p) /\ loc[p].nreq = 1 /\ pc[p] = "done"
        /\ provider = "gemini" /\ loc[p].reqProvider = "gemini"
        /\ loc[p].response.ok /\ loc[p].response.hasText

\* The array the adapter handed to fetchAllWordsOfTheDay holds fewer
\* entries than languages were requested, each entry with a word.
FewerEntries(p) ==
    LET r == AdapterResult(loc[p].reqProvider, loc[p].response)
    IN /\ loc[p].answered /\ r.ok
       /\ Len(r.words.items) < Len(EnabledLanguages(languages))
       /\ \A i \in 1..Len(r.words.items) : r.words.items[i].word # Undefined

AdapterItems(p) == AdapterResult(loc[p].reqProvider, loc[p].response).words.items

\* The fetch of p went through: it is saving, or the save succeeded and the
\* result is a block.
FetchSucceeds(p) == pc[p] = "saving" \/ loc[p].result = "block"

\* C13 as stated: any count of entries from zero to one less than requested
\* gives a block (the save of the settings not failing).
C13_FewerEntriesGiveBlock ==
    \A p \in Procs :
        FewerEntries(p) /\ ~loc[p].saveFailed => FetchSucceeds(p)

\* C13, amended: a count from one to one less than requested gives a block
\* (the save of the settings not failing); an empty array gives null.
C13_FewerButSomeGiveBlock ==
    \A p \in Procs :
        FewerEntries(p) /\ ~loc[p].saveFailed =>
            IF Len(AdapterItems(p)) >= 1
            THEN /\ FetchSucceeds(p)
                 /\ HoldsBlock(p) => loc[p].markdown = RenderBlock(AdapterItems(p))
            ELSE loc[p].result = "null" /\ loc[p].nreq = 1

\* One entry returned for two requested languages, rendered as a block.
C13_Witness ==
    \E p \in Procs :
        /\ FewerEntries(p) /\ HoldsBlock(p)
        /\ Len(EnabledLanguages(languages)) = 2 /\ Len(AdapterItems(p)) = 1

\* The manual command called fetchAllWordsOfTheDay while today's note held
\* a block already.
ManualOverBlock(p) ==
    /\ loc[p].kind = "manual" /\ loc[p].called
    /\ TodayPath \in DOMAIN loc[p].vaultAtCall
    /\ HasSentinel(loc[p].vaultAtCall[TodayPath])

\* Every word of the array the adapter returned is in the history list of
\* its language, in lower case.
ItemsRecorded(p) ==
    \A i \in 1..Len(AdapterItems(p)) :
        LET key == HistoryKey(AdapterItems(p)[i].language)
        IN /\ key \in DOMAIN wordHistory
           /\ Includes(wordHistory[key], toLowerCase(AdapterItems(p)[i].word))

\* C14: the manual command run over a note that holds the block already
\* still sends its request; when the fetch gives a block the returned words
\* are in the history and in the persisted settings; the vault stays as it
\* was at the call and no write is started.
C14_ManualNoPreCheck ==
    \A p \in Procs :
        ManualOverBlock(p) =>
            /\ ~BadConfiguration => loc[p].nreq = 1
            /\ loc[p].result = "block" =>
                   /\ ItemsRecorded(p)
                   /\ persisted = Snapshot(wordHistory, wordHistoryLimit)
            /\ vault = loc[p].vaultAtCall
            /\ ~loc[p].wrote /\ pc[p] # "writing"

\* The command ended with a block fetched and recorded, the note unchanged.
C14_Witness ==
    \E p \in Procs :
        /\ ManualOverBlock(p) /\ pc[p] = "done" /\ dailyNotes
        /\ loc[p].result = "block" /\ loc[p].nreq = 1
        /\ wordHistory # loc[p].histAtCall /\ persisted # loc[p].persistedAtCall
        /\ vault = loc[p].vaultAtCall

\* The file-open handler run as p sent a request only when the auto-trigger
\* was on, the file was today's note and the content it read had no block.
AutoRequestOnlyIfEligible ==
    \A p \in Procs :
        loc[p].kind = "auto" /\ loc[p].nreq >= 1 =>
            /\ autoAppend /\ dailyNotes
            /\ loc[p].file = TodayPath
            /\ TodayPath \in DOMAIN loc[p].vaultAtCall
            /\ ~HasSentinel(loc[p].vaultAtCall[TodayPath])

\* A step of the file-open handler that does not reach the call of
\* fetchAllWordsOfTheDay leaves the notes, the history, the persisted
\* settings and the flag alone and sends nothing.
IneligibleStepChangesNothing ==
    \A p \in Procs :
        pc'[p] # pc[p] /\ loc'[p].kind = "auto" /\ ~loc'[p].called =>
            /\ vault' = vault
            /\ wordHistory' = wordHistory /\ persisted' = persisted
            /\ fetchingWords' = fetchingWords
            /\ loc'[p].nreq = 0 /\ pc'[p] \in {"checking", "done"}

\* C15: a file-open event leads to a request only if autoAppend is on, the
\* file is today's daily note and the content read lacks the sentinel; in
\* every other case nothing is requested and the note, the history and the
\* in-flight flag stay as they were.
C15_AutoEligibility ==
    /\ []AutoRequestOnlyIfEligible
    /\ [][IneligibleStepChangesNothing]_vars

\* The handler read today's note, found the block and returned.
C15_Witness ==
    \E p \in Procs :
        /\ loc[p].kind = "auto" /\ pc[p] = "done"
        /\ autoAppend /\ loc[p].file = TodayPath
        /\ dailyNotes /\ ~loc[p].called /\ ~loc[p].storageFailed
        /\ HasSentinel(TodayContent) /\ loc[p].nreq = 0

\* p runs a fetch started by a file-open event.
AutoFetching(p) == loc[p].kind = "auto" /\ InFetchCycle(p)

\* The flag is set only while some fetch started by a file-open event is in
\* progress.
FlagHasOwner == fetchingWords => \E p \in Procs : AutoFetching(p)

\* C16: the operations returning, every fetch started by a file-open event
\* ends with the flag cleared, a set flag is always cleared later, and the
\* flag is never left set with no such fetch in progress.
C16_FlagReleased ==
    /\ []FlagHasOwner
    /\ fetchingWords ~> ~fetchingWords
    /\ \A p \in {1, 2} : AutoFetching(p) ~> (pc[p] = "done" /\ ~fetchingWords)

\* A fetch started by a file-open event ended on a failed note write with
\* the flag cleared.
C16_Witness ==
    \E p \in Procs :
        /\ loc[p].kind = "auto" /\ pc[p] = "done" /\ loc[p].called
        /\ loc[p].result = "block" /\ loc[p].storageFailed /\ ~loc[p].wrote
        /\ ~fetchingWords

\* The step in which the file-open handler starts as p while the flag is
\* set: the handler ends at once, having read no note, called no fetch, sent
\* no request and changed no note, history or flag.
DroppedAtOnce(p) ==
    pc[p] = "idle" /\ pc'[p] # "idle" /\ loc'[p].kind = "auto" /\ fetchingWords =>
        /\ pc'[p] = "done"
        /\ ~loc'[p].called /\ loc'[p].nreq = 0 /\ ~loc'[p].wrote
        /\ vault' = vault /\ wordHistory' = wordHistory /\ persisted' = persisted
        /\ fetchingWords' = fetchingWords

\* A handler that ended does nothing more.
EndedForGood(p) == pc[p] = "done" => pc'[p] = "done" /\ loc'[p] = loc[p]

\* C17: a file-open event handled while the flag is set reads no note,
\* sends no request, writes no note, and the ended handler never acts again.
C17_DroppedNotQueued ==
    [][\A p \in Procs : DroppedAtOnce(p) /\ EndedForGood(p)]_vars

\* A file-open event on today's note, which has no block, was dropped while
\* the fetch of another event is in progress.
C17_Witness ==
    \E p, q \in Procs :
        /\ p # q /\ AutoFetching(q) /\ fetchingWords
        /\ loc[p].kind = "auto" /\ pc[p] = "done" /\ loc[p].file = TodayPath
        /\ ~loc[p].called /\ ~loc[p].storageFailed
        /\ ~HasSentinel(TodayContent)

\* The first well-formed bracketed substring of a completion: from its
\* first "[" to the nearest "]" that closes a JSON array; <<>> if none.
FirstBracketed(text) ==
    LET opens == {i \in 1..Len(text) : text[i] = "["}
        first == CHOOSE i \in opens : \A j \in opens : i <= j
        ends == {l \in first..Len(text) :
                    /\ JsonParse(SubSeq(text, first, l)).ok
                    /\ IsArray(JsonParse(SubSeq(text, first, l)))}
        end == CHOOSE l \in ends : \A m \in ends : l <= m
    IN IF opens = {} THEN <<>>
       ELSE IF ends = {} THEN <<>>
       ELSE SubSeq(text, first, end)

\* Gemini answered p with a completion holding an array of one or more
\* entries, each with a word, possibly with prose around it.
GeminiArrayInProse(p) ==
    /\ loc[p].answered /\ loc[p].reqProvider = "gemini"
    /\ loc[p].response.ok /\ loc[p].response.hasText
    /\ FirstBracketed(loc[p].response.text) # <<>>
    /\ LET items == JsonParse(FirstBracketed(loc[p].response.text)).items
       IN /\ Len(items) >= 1
          /\ \A i \in 1..Len(items) : items[i].word # Undefined

\* C18: for a Gemini completion holding a well-formed array in prose, the
\* adapter returns the first well-formed bracketed substring as the array,
\* also when the prose after the array has brackets of its own: the fetch
\* goes on with those entries (it can still end on a failed save).
C18_GeminiFirstArray ==
    \A p \in Procs :
        GeminiArrayInProse(p) =>
            /\ AdapterItems(p) = JsonParse(FirstBracketed(loc[p].response.text)).items
            /\ ~loc[p].saveFailed => FetchSucceeds(p)

\* The manual command holds a rendered block.
ManualWithBlock(p) == loc[p].kind = "manual" /\ loc[p].result = "block"

\* The block was dropped: the command ended, wrote nothing, and every note
\* is as it was when the command was run.
BlockDiscarded(p) ==
    /\ pc[p] = "done" /\ ~loc[p].wrote
    /\ vault = loc[p].vaultAtCall

\* C19: the manual command with a block and no file at today's path creates
\* the note empty and then appends the block to it; when the creation fails
\* or the daily-notes configuration is absent the block is dropped, nothing
\* is written, no second attempt is made and the command does not throw.
C19_ManualCreation ==
    \A p \in Procs :
        ManualWithBlock(p) =>
            /\ ~loc[p].rejected /\ loc[p].nreq = 1
            /\ ~dailyNotes => BlockDiscarded(p) /\ loc[p].storageFailed
            /\ dailyNotes /\ TodayPath \notin DOMAIN loc[p].vaultAtCall =>
                 CASE pc[p] = "creating" -> vault = loc[p].vaultAtCall
                   [] pc[p] = "reading" -> vault[TodayPath] = <<>>
                   [] pc[p] = "writing" ->
                        /\ vault[TodayPath] = <<>>
                        /\ loc[p].updated = <<"\n", "\n">> \o loc[p].markdown
                   [] pc[p] = "done" /\ loc[p].wrote ->
                        vault[TodayPath] =
                            <<"\n", "\n">> \o RenderBlock(AdapterItems(p))
                   [] pc[p] = "done" /\ ~loc[p].wrote ->
                        /\ loc[p].storageFailed
                        /\ \/ BlockDiscarded(p)
                           \/ vault[TodayPath] = <<>>
                   [] OTHER -> FALSE

\* The note did not exist, was created, and holds the block after two
\* newlines.
C19_Witness ==
    \E p \in Procs :
        /\ ManualWithBlock(p) /\ pc[p] = "done" /\ loc[p].wrote
        /\ TodayPath \notin DOMAIN loc[p].vaultAtCall
        /\ SubSeq(vault[TodayPath], 1, 3) = <<"\n", "\n", Sentinel>>

\* C20: whenever fetchAllWordsOfTheDay returned null the history store is
\* what it was before the call, whatever the provider answered and whether
\* the save of the settings succeeded or not.
C20_FailedFetchKeepsHistory ==
    \A p \in Procs :
        loc[p].called /\ loc[p].result = "null" => wordHistory = loc[p].histAtCall

\* a is the start of b.
IsPrefix(a, b) == Len(a) <= Len(b) /\ SubSeq(b, 1, Len(a)) = a

\* The step in which the write of p's appendToDailyNote succeeds.
WriteSucceeds(p) == pc[p] = "writing" /\ loc'[p].wrote

\* C21: when appendToDailyNote writes, the new content starts with what the
\* note holds at the moment of the write, so what another writer put there
\* since this call's read is still present.
C21_AppendKeepsContent ==
    [][\A p \in Procs :
          WriteSucceeds(p) => IsPrefix(vault[loc[p].file], vault'[loc[p].file])]_vars

\* The language field of an entry names the configured language `name`, in
\* the configured spelling or in lower case.
NamesLanguage(field, name) ==
    \/ field = name
    \/ field = "english" /\ name = "English"
    \/ field = "spanish" /\ name = "Spanish"

\* The words recorded for the configured language `name` under either
\* spelling are few enough to be all among the most recent AvoidLimit.
AllRecent(name) ==
    \A field \in {"English", "english", "Spanish", "spanish"} :
        NamesLanguage(field, name) => Len(HistoryList(wordHistory, field)) <= AvoidLimit

\* The words the prompt built now, with any phrasing, tells the provider to
\* avoid for the language `name`.
AvoidedIn(prompt, name, word) ==
    \E k \in 1..Len(prompt) :
        /\ prompt[k].kind = "avoid" /\ prompt[k].name = name
        /\ Includes(prompt[k].words, word)

\* C22: after a fetch that gave a block, every word returned for an enabled
\* language is in the avoid list of the prompt built next for that language
\* (its words being few enough to be all recent), whatever spelling or case
\* the entry's language field has.
C22_RecordedWordsAvoided ==
    \A p \in Procs :
        loc[p].result = "block" =>
            \A i \in 1..Len(AdapterItems(p)), j \in 1..Len(languages),
               v \in 1..NumVariations :
                /\ languages[j].enabled
                /\ NamesLanguage(AdapterItems(p)[i].language, languages[j].name)
                /\ AllRecent(languages[j].name)
                => AvoidedIn(buildPrompt(EnabledLanguages(languages), wordHistory, v),
                             languages[j].name,
                             toLowerCase(AdapterItems(p)[i].word))

====
